---- MODULE Spec2Model ----
(***************************************************************************)
(* Credential / session lifecycle of the mindmarks backend:                *)
(*   app/core/security.py        password hashing, JWT issue / validation  *)
(*   app/db/models.py            RefreshToken, PasswordResetToken          *)
(*   app/services/user_service.py the two token stores                     *)
(*   app/api/v1/endpoints/auth.py login, refresh, logout, forgot / reset   *)
(*                                                                         *)
(* Time is a discrete clock `now`; one tick is the resolution of the       *)
(* "exp" claim of a JWT (python-jose encodes datetimes as whole seconds),  *)
(* so several requests can be served within the same tick.  Every `await`  *)
(* on the database is one atomic step of a request; requests of different  *)
(* clients interleave between those steps.                                 *)
(***************************************************************************)
EXTENDS Integers, Sequences, FiniteSets, TLC

\* ------------------------------------------------------------------ bounds
MaxTime == 2
MaxOps == 3
MaxOpsSeq == 4
MaxOpsMail == 2
MaxRows == 2
MaxOpsLive == 2
SaltLen == 1
MaxPwLen == 2

\* ------------------------------------------------- program constants (scaled)
\* settings.REFRESH_TOKEN_EXPIRE_DAYS, settings.ACCESS_TOKEN_EXPIRE_MINUTES and
\* the default of PasswordResetToken.create_token(expires_in_hours), in ticks:
\* the lifetimes are scaled down, the refresh token outliving the other two.
REFRESH_TOKEN_EXPIRE_DAYS == 2
ACCESS_TOKEN_EXPIRE_MINUTES == 1
RESET_EXPIRES_IN_HOURS == 1
\* reset_password: len(new_password) < 8 is rejected
MIN_PASSWORD_LEN == 8

Users == {"u1", "u2"}
Procs == {1, 2}

EmailOf(u) == IF u = "u1" THEN "a@x.com" ELSE "b@x.com"
Emails == {EmailOf(u) : u \in Users}
UnknownEmail == "nobody@x.com"

\* ------------------------------------------------------------- byte strings
\* A str is a tuple of one-character strings, a bytes value a tuple of 0..255.
HexDigits == <<"0","1","2","3","4","5","6","7","8","9","a","b","c","d","e","f">>

Chars == {"a", "b", "c", "$"}

\* str.encode(): the UTF-8 code of each (ASCII) character
Ord(c) == CASE c = "a" -> 97 [] c = "b" -> 98 [] c = "c" -> 99 [] c = "$" -> 36
            [] OTHER -> 63

Encode(s) == [i \in 1..Len(s) |-> Ord(s[i])]

\* bytes.hex(): two lower-case hex digits per byte
BytesHex(bs) ==
    [i \in 1..(2 * Len(bs)) |->
        IF i % 2 = 1 THEN HexDigits[(bs[(i + 1) \div 2] \div 16) + 1]
                     ELSE HexDigits[(bs[i \div 2] % 16) + 1]]

IsHexDigit(c) == \E k \in 1..16 : HexDigits[k] = c

HexVal(c) == (CHOOSE k \in 1..16 : HexDigits[k] = c) - 1

\* bytes.fromhex() accepts an even number of hex digits and raises otherwise
FromHexOk(s) == Len(s) % 2 = 0 /\ \A i \in 1..Len(s) : IsHexDigit(s[i])

FromHex(s) == [i \in 1..(Len(s) \div 2) |-> 16 * HexVal(s[2 * i - 1]) + HexVal(s[2 * i])]

\* hashlib.sha256(data).hexdigest(), as a collision-free digest: on the byte
\* strings of the model it is the hex form of the data itself.
Sha256Hex(bs) == BytesHex(bs)

StartsWith(s, pre) == Len(s) >= Len(pre) /\ SubSeq(s, 1, Len(pre)) = pre

\* Positions of the separator in s, ascending
SepPositions(s, sep) == {i \in 1..Len(s) : s[i] = sep}

RECURSIVE SplitAt(_, _, _)
\* str.split(sep, maxsplit): cut at the first maxsplit separators, left to
\* right; the last field keeps the rest of the string, separators included.
SplitAt(s, sep, maxsplit) ==
    IF maxsplit = 0 \/ SepPositions(s, sep) = {} THEN <<s>>
    ELSE LET i == CHOOSE k \in SepPositions(s, sep) :
                     \A j \in SepPositions(s, sep) : k <= j
         IN  <<SubSeq(s, 1, i - 1)>> \o SplitAt(SubSeq(s, i + 1, Len(s)), sep, maxsplit - 1)

FallbackTag == <<"$","f","a","l","l","b","a","c","k","$">>
PrimaryTag == <<"$","2","b","$">>

\* pwd_context.hash / pwd_context.verify (passlib, bcrypt): an adaptive hash
\* whose encoding starts "$2b$"; verification recomputes and compares.
PrimaryHash(password) == PrimaryTag \o Sha256Hex(Encode(password))

PrimaryVerify(password, hashed) == hashed = PrimaryHash(password)

\* hash_password's except branch: salt = os.urandom(32),
\* f"$fallback${salt.hex()}${sha256(password.encode() + salt).hexdigest()}"
FallbackHash(password, salt) ==
    FallbackTag \o BytesHex(salt) \o <<"$">> \o Sha256Hex(Encode(password) \o salt)

\* hash_password(password): the primary scheme, or the fallback when it raises
hash_password(password, salt, primaryOk) ==
    IF primaryOk THEN PrimaryHash(password) ELSE FallbackHash(password, salt)

\* verify_password looking at the scheme of the stored hash only
verify_password_scheme(plain, hashed) ==
    StartsWith(hashed, FallbackTag) \/ StartsWith(hashed, PrimaryTag)

\* verify_password(plain, hashed).  In the fallback branch the credential is
\* split with hashed.split("$", 3) and unpacked into exactly three names
\* (_, salt_hex, hash_hex); an unpack of any other number of fields, or a
\* bad hex salt, raises, and every exception is answered with False.
verify_password(plain, hashed) ==
    IF StartsWith(hashed, FallbackTag)
    THEN LET parts == SplitAt(hashed, "$", 3)
         IN  IF Len(parts) # 3 THEN FALSE
             ELSE IF ~FromHexOk(parts[2]) THEN FALSE
             ELSE Sha256Hex(Encode(plain) \o FromHex(parts[2])) = parts[3]
    ELSE PrimaryVerify(plain, hashed)

\* ------------------------------------------------------------------- tokens
\* jwt.encode(claims, SECRET_KEY, HS256): the token string is a function of
\* its claims alone (HS256 is deterministic); "sig" tells a token signed with
\* the server's key ("ok") from a forgery ("bad").
JwtEncode(sub, exp, typ) == [sub |-> sub, exp |-> exp, typ |-> typ, sig |-> "ok"]

NoToken == [sub |-> "none", exp |-> 0, typ |-> "none", sig |-> "none"]

create_access_token(subject, t) == JwtEncode(subject, t + ACCESS_TOKEN_EXPIRE_MINUTES, "access")

create_refresh_token(subject, t) == JwtEncode(subject, t + REFRESH_TOKEN_EXPIRE_DAYS, "refresh")

\* jwt.decode: JWTError on a bad signature, ExpiredSignatureError when exp < now
JwtDecode(token, t) ==
    IF token.sig # "ok" THEN "JWTError"
    ELSE IF token.exp < t THEN "ExpiredSignatureError"
    ELSE "ok"

\* validate_refresh_token: "ok" or the detail of the HTTPException raised.
\* The HTTPException("Invalid token type") is raised inside the try block and
\* is caught by its own `except Exception`, which raises "Invalid refresh token".
validate_refresh_token(token, t) ==
    CASE JwtDecode(token, t) = "ExpiredSignatureError" -> "Refresh token has expired"
      [] JwtDecode(token, t) = "JWTError" -> "Invalid refresh token"
      [] JwtDecode(token, t) = "ok" /\ token.typ # "refresh" -> "Invalid refresh token"
      [] OTHER -> "ok"

\* -------------------------------------------------------------- plaintexts
PwInit == <<"a","a","a","a","a","a","a","a">>
PwNew == <<"b","b","b","b","b","b","b","b">>
PwShort == <<"c","c">>

\* ------------------------------------------------------------------- state
VARIABLES
    now,        \* the clock (datetime.utcnow())
    users,      \* table users: id -> [email, hashed_password, is_active]; plain
                \* remembers the password the hash was made from (no step reads it)
    rtokens,    \* table refresh_tokens: set of rows
    ptokens,    \* table password_reset_tokens: set of rows
    secrets,    \* reset secrets handed out so far: secret k -> its history
    issued,     \* JWTs the server has signed and returned to clients
    outbox,     \* notifications scheduled by forgot_password
    proc,       \* the request each worker slot serves, and its response
    ops,        \* requests started
    budget,     \* requests the run may start
    rotated,    \* refresh tokens a successful refresh has consumed
    preReset,   \* per user: refresh rows and tokens that predate a successful reset
    hin,        \* harness of the functions studied alone: the inputs
    hout        \* harness: the position and the results

vars == <<now, users, rtokens, ptokens, secrets, issued, outbox, proc, ops,
          budget, rotated, preReset, hin, hout>>

\* ------------------------------------------------------------ store queries
\* UserService.get_user_by_email: scalar_one_or_none over users.email == email
get_user_by_email(us, email) == {u \in Users : us[u].email = email}

\* UserService.get_user_by_id
get_user_by_id(us, uid) == {u \in Users : u = uid}

\* Result.scalar_one_or_none(): the row, none for no row, and
\* MultipleResultsFound for more than one row.
ScalarOneOrNone(rows) ==
    IF Cardinality(rows) = 1 THEN [raised |-> FALSE, row |-> rows]
    ELSE IF rows = {} THEN [raised |-> FALSE, row |-> {}]
    ELSE [raised |-> TRUE, row |-> {}]

\* get_refresh_token without its revoked = False condition
get_refresh_token_any(rt, token, t) ==
    LET res == ScalarOneOrNone({r \in rt : r.token = token /\ r.expires_at > t})
    IN  IF res.raised THEN {} ELSE res.row

\* UserService.get_refresh_token: the unrevoked, unexpired row with this token
\* value; any exception (MultipleResultsFound included) is answered with None.
get_refresh_token(rt, token, t) ==
    LET res == ScalarOneOrNone({r \in rt : r.token = token /\ r.revoked = FALSE
                                           /\ r.expires_at > t})
    IN  IF res.raised THEN {} ELSE res.row

\* UserService.create_refresh_token: the row added, expires_at = utcnow() + TTL
NewRefreshRow(id, uid, token, t) ==
    [id |-> id, token |-> token, user_id |-> uid,
     expires_at |-> t + REFRESH_TOKEN_EXPIRE_DAYS, revoked |-> FALSE]

\* revoke_refresh_token with no condition on the token value
revoke_refresh_token_every(rt, token) == {[r EXCEPT !.revoked = TRUE] : r \in rt}

\* UserService.revoke_refresh_token: UPDATE ... WHERE token = :token SET revoked
revoke_refresh_token(rt, token) ==
    {IF r.token = token THEN [r EXCEPT !.revoked = TRUE] ELSE r : r \in rt}

\* its return value: result.rowcount > 0
RevokeRowcount(rt, token) == Cardinality({r \in rt : r.token = token})

\* The same UPDATE without the user_id condition
revoke_all_user_refresh_tokens_everyone(rt, uid) ==
    {[r EXCEPT !.revoked = TRUE] : r \in rt}

\* UserService.revoke_all_user_refresh_tokens
revoke_all_user_refresh_tokens(rt, uid) ==
    {IF r.user_id = uid /\ r.revoked = FALSE THEN [r EXCEPT !.revoked = TRUE] ELSE r
       : r \in rt}

RevokeAllRowcount(rt, uid) == Cardinality({r \in rt : r.user_id = uid /\ r.revoked = FALSE})

\* The two methods whole: the store they leave and the value they return;
\* dbok = FALSE: the statement or the commit raises, the except branch rolls
\* back and returns False / 0.
RevokeResult(rt, token, dbok) ==
    IF dbok THEN [rt |-> revoke_refresh_token(rt, token), ret |-> RevokeRowcount(rt, token) > 0]
    ELSE [rt |-> rt, ret |-> FALSE]

RevokeAllResult(rt, uid, dbok) ==
    IF dbok THEN [rt |-> revoke_all_user_refresh_tokens(rt, uid),
                  ret |-> RevokeAllRowcount(rt, uid)]
    ELSE [rt |-> rt, ret |-> 0]

\* The same DELETE restricted to revoked rows
cleanup_expired_refresh_tokens_revoked(rt, t) ==
    {r \in rt : ~(r.expires_at <= t /\ r.revoked = TRUE)}

\* UserService.cleanup_expired_refresh_tokens: DELETE WHERE expires_at <= now
cleanup_expired_refresh_tokens(rt, t) == {r \in rt : ~(r.expires_at <= t)}

\* The method whole: the store it leaves and result.rowcount; dbok = FALSE:
\* the DELETE or the commit raises, rollback, 0 is returned.
CleanupRefreshResult(rt, t, dbok) ==
    IF dbok THEN [rt |-> cleanup_expired_refresh_tokens(rt, t),
                  ret |-> Cardinality(rt) - Cardinality(cleanup_expired_refresh_tokens(rt, t))]
    ELSE [rt |-> rt, ret |-> 0]

\* UserService.cleanup_expired_reset_tokens:
\* DELETE WHERE expires_at <= now OR used == True
cleanup_expired_reset_tokens(pt, t) == {r \in pt : ~(r.expires_at <= t \/ r.used = TRUE)}

\* The method whole: the table it leaves and result.rowcount; dbok = FALSE:
\* the DELETE or the commit raises, rollback, 0 is returned.
CleanupResetResult(pt, t, dbok) ==
    IF dbok THEN [pt |-> cleanup_expired_reset_tokens(pt, t),
                  ret |-> Cardinality(pt) - Cardinality(cleanup_expired_reset_tokens(pt, t))]
    ELSE [pt |-> pt, ret |-> 0]

\* hashlib.sha256(token.encode()).hexdigest() of a reset secret (collision-free)
TokenHash(secret) == <<"sha256", secret>>

\* PasswordResetToken.create_token: the row for a fresh secret
NewResetRow(id, email, secret, t) ==
    [id |-> id, user_email |-> email, token_hash |-> TokenHash(secret),
     expires_at |-> t + RESET_EXPIRES_IN_HOURS, used |-> FALSE]

\* PasswordResetToken.verify_token
verify_token(row, secret, t) ==
    row.token_hash = TokenHash(secret) /\ ~row.used /\ t < row.expires_at

\* create_password_reset_token's UPDATE: the rows for the email that are live
\* when the statement runs
LiveResetIds(pt, email, t) ==
    {r.id : r \in {x \in pt : x.user_email = email /\ x.used = FALSE /\ x.expires_at > t}}

\* verify_and_use_reset_token's SELECT: every unused, unexpired row of the
\* table (no filter on the email or on the hash)
SelectLiveResetRows(pt, t) == {r \in pt : r.used = FALSE /\ r.expires_at > t}

\* ---------------------------------------------------------------- requests
\* A worker slot: the request it serves (op, arguments, position pc, locals)
\* and, once pc = "done", the response (status, detail, tokens, counts); n
\* numbers the requests.  A request refused by its first step keeps no
\* argument.  The fields from sawValid on are observations of the state made
\* at the moment of each check, kept for the properties below; no step reads
\* them.
Idle ==
    [op |-> "idle", pc |-> "done", n |-> 0, tok |-> NoToken, secret |-> 0, pw |-> <<>>,
     email |-> "", uid |-> "none", recs |-> {}, status |-> 0, detail |-> "",
     access |-> NoToken, refresh |-> NoToken, n1 |-> 0, n2 |-> 0,
     sawValid |-> FALSE, sawLive |-> FALSE, sawUser |-> FALSE, racedWith |-> 0,
     replay |-> FALSE, stale |-> FALSE, hadLive |-> FALSE, second |-> FALSE,
     superseded |-> FALSE, counted |-> FALSE, mail |-> "",
     sawCred |-> FALSE, sawActive |-> FALSE, short |-> FALSE]

With(r, upd) == [k \in DOMAIN r |-> IF k \in DOMAIN upd THEN upd[k] ELSE r[k]]

InFlight(p) == proc[p].pc # "done"

\* A new request is served by the lowest free slot, within the budget.
CanStart(p) ==
    /\ ~InFlight(p)
    /\ ops < budget
    /\ \A q \in Procs : q < p => InFlight(q)

\* The response slots of finished requests are cleared when a request starts.
Serve(p, req) ==
    [q \in Procs |-> IF q = p THEN With(req, [n |-> ops + 1])
                     ELSE IF InFlight(q) THEN proc[q] ELSE Idle]

Forge(t) == [t EXCEPT !.sig = "bad"]

\* What a client can present as a refresh token: a JWT the server returned,
\* or such a JWT re-signed with a key of its own.
Presentable == issued \cup {Forge(t) : t \in {x \in issued : x.typ = "refresh"}}

\* The three facts the refresh handler has to establish
TokenSound(tok, t) == tok.sig = "ok" /\ tok.typ = "refresh" /\ ~(tok.exp < t)
LiveRecord(rt, tok, t) ==
    \E r \in rt : r.token = tok /\ r.revoked = FALSE /\ r.expires_at > t
UserUsable(us, uid) == uid \in Users /\ us[uid].is_active

\* The clock; it stops with the last answer, after which nothing reads it.
Tick ==
    /\ now < MaxTime
    /\ ops < budget \/ \E p \in Procs : InFlight(p)
    /\ now' = now + 1
    /\ UNCHANGED <<users, rtokens, ptokens, secrets, issued, outbox, proc, ops,
                   budget, rotated, preReset, hin, hout>>

\* POST /login (login_for_access_token); dbok = FALSE: the INSERT of
\* UserService.create_refresh_token raises, it rolls back and returns None,
\* which the handler does not look at.
Login(p, email, pw, dbok) ==
    /\ CanStart(p)
    /\ LET found == get_user_by_email(users, email)
           u == CHOOSE x \in found : TRUE
           at == create_access_token(u, now)
           rt == create_refresh_token(u, now)
           cred == found # {} /\ users[u].plain = pw
           seen == With(Idle, [op |-> "login", sawUser |-> found # {}, sawCred |-> cred,
                               sawActive |-> cred /\ users[u].is_active])
       IN  IF found = {} \/ ~verify_password(pw, users[u].hashed_password)
           THEN /\ dbok
                /\ proc' = Serve(p, With(seen, [status |-> 401,
                               detail |-> "Incorrect email or password"]))
                /\ UNCHANGED <<rtokens, issued>>
           ELSE IF ~users[u].is_active
           THEN /\ dbok
                /\ proc' = Serve(p, With(seen, [uid |-> u, status |-> 400,
                               detail |-> "Inactive user"]))
                /\ UNCHANGED <<rtokens, issued>>
           ELSE /\ rtokens' = IF dbok THEN rtokens \cup {NewRefreshRow(ops + 1, u, rt, now)}
                                      ELSE rtokens
                /\ issued' = issued \cup {at, rt}
                /\ proc' = Serve(p, With(seen, [uid |-> u, status |-> 200,
                               access |-> at, refresh |-> rt]))
    /\ ops' = ops + 1
    /\ UNCHANGED <<budget, now, users, ptokens, secrets, outbox, rotated, preReset, hin, hout>>

\* POST /refresh (refresh_access_token), first await: validate_refresh_token,
\* then UserService.get_refresh_token.
RefreshStart(p, tok) ==
    /\ CanStart(p)
    /\ LET v == validate_refresh_token(tok, now)
           row == get_refresh_token(rtokens, tok, now)
           rivals == {q \in Procs : /\ q # p /\ InFlight(q) /\ proc[q].op = "refresh"
                                    /\ proc[q].tok = tok
                                    /\ proc[q].sawValid /\ proc[q].sawLive}
           base == With(Idle, [op |-> "refresh",
                       sawValid |-> TokenSound(tok, now),
                       sawLive |-> LiveRecord(rtokens, tok, now),
                       replay |-> tok \in rotated,
                       stale |-> \E u \in Users : tok \in preReset[u].toks,
                       racedWith |-> IF rivals = {} THEN 0
                                     ELSE proc[CHOOSE q \in rivals : TRUE].n])
       IN  proc' = Serve(p,
                IF v # "ok" THEN With(base, [status |-> 401, detail |-> v])
                ELSE IF row = {}
                THEN With(base, [status |-> 401, detail |-> "Invalid or revoked refresh token"])
                ELSE With(base, [pc |-> "user", tok |-> tok, uid |-> tok.sub]))
    /\ ops' = ops + 1
    /\ UNCHANGED <<now, users, rtokens, ptokens, secrets, issued, outbox, budget,
                   rotated, preReset, hin, hout>>

\* The user check placed after the rotation: the token is revoked before an
\* inactive user is refused
RefreshUserRevoking(p) ==
    /\ proc[p].op = "refresh" /\ proc[p].pc = "user"
    /\ LET found == get_user_by_id(users, proc[p].uid)
           seen == With(proc[p], [sawUser |-> UserUsable(users, proc[p].uid)])
           refused == found = {} \/ ~users[proc[p].uid].is_active
       IN  /\ proc' = [proc EXCEPT ![p] =
                  IF refused
                  THEN With(seen, [pc |-> "done", status |-> 401,
                                   detail |-> "Invalid user or inactive user"])
                  ELSE With(seen, [pc |-> "revoke"])]
           /\ rtokens' = IF refused THEN revoke_refresh_token(rtokens, proc[p].tok)
                                    ELSE rtokens
    /\ UNCHANGED <<now, users, ptokens, secrets, issued, outbox, ops, budget,
                   rotated, preReset, hin, hout>>

\* second await: UserService.get_user_by_id, "Invalid user or inactive user"
RefreshUser(p) ==
    /\ proc[p].op = "refresh" /\ proc[p].pc = "user"
    /\ LET found == get_user_by_id(users, proc[p].uid)
           seen == With(proc[p], [sawUser |-> UserUsable(users, proc[p].uid)])
       IN  proc' = [proc EXCEPT ![p] =
                IF found = {} \/ ~users[proc[p].uid].is_active
                THEN With(seen, [pc |-> "done", status |-> 401,
                                 detail |-> "Invalid user or inactive user"])
                ELSE With(seen, [pc |-> "revoke"])]
    /\ UNCHANGED <<now, users, rtokens, ptokens, secrets, issued, outbox, ops, budget,
                   rotated, preReset, hin, hout>>

\* third await: UserService.revoke_refresh_token (its result is not looked
\* at); dbok = FALSE: the UPDATE raises, it rolls back and returns False.
RefreshRevoke(p, dbok) ==
    /\ proc[p].op = "refresh" /\ proc[p].pc = "revoke"
    /\ rtokens' = IF dbok THEN revoke_refresh_token(rtokens, proc[p].tok) ELSE rtokens
    /\ proc' = [proc EXCEPT ![p] = With(proc[p], [pc |-> "create"])]
    /\ UNCHANGED <<budget, now, users, ptokens, secrets, issued, outbox, ops, rotated,
                   preReset, hin, hout>>

\* fourth await: the new tokens are made and UserService.create_refresh_token
\* stores the new refresh token (its result is not looked at).
RefreshCreate(p, dbok) ==
    /\ proc[p].op = "refresh" /\ proc[p].pc = "create"
    /\ LET u == proc[p].uid
           at == create_access_token(u, now)
           rt == create_refresh_token(u, now)
       IN  /\ rtokens' = IF dbok THEN rtokens \cup {NewRefreshRow(proc[p].n, u, rt, now)}
                                 ELSE rtokens
           /\ issued' = issued \cup {at, rt}
           /\ proc' = [proc EXCEPT ![p] = With(proc[p], [pc |-> "done", status |-> 200,
                                               access |-> at, refresh |-> rt])]
    /\ rotated' = rotated \cup {proc[p].tok}
    /\ UNCHANGED <<budget, now, users, ptokens, secrets, outbox, ops, preReset, hin, hout>>

\* POST /logout: revoke_refresh_token, and the same answer whatever it returns
Logout(p, tok, dbok) ==
    /\ CanStart(p)
    /\ rtokens' = IF dbok THEN revoke_refresh_token(rtokens, tok) ELSE rtokens
    /\ proc' = Serve(p, With(Idle, [op |-> "logout", tok |-> tok, status |-> 200,
                                        detail |-> "Successfully logged out"]))
    /\ ops' = ops + 1
    /\ UNCHANGED <<budget, now, users, ptokens, secrets, issued, outbox, rotated, preReset,
                   hin, hout>>

\* ------------------------------------------------------- password reset flow
\* What is remembered of each secret handed out: secret k is secrets[k].
NewSecret(email, t) ==
    [email |-> email, issuedAt |-> t, calls |-> 0, wins |-> 0, firstOk |-> FALSE]

NewerIssued(k) == \E j \in (k + 1)..Len(secrets) : secrets[j].email = secrets[k].email
EarlierIssued(k) == \E j \in 1..(k - 1) : secrets[j].email = secrets[k].email

\* The outcome of a reset_password call that presented secret k under the
\* conditions "password long enough, before expiry, no newer token issued"
Tally(sq, k, counted, won) ==
    IF ~counted THEN sq
    ELSE [sq EXCEPT ![k] = [@ EXCEPT !.calls = @ + 1,
                                     !.wins = IF won THEN @ + 1 ELSE @,
                                     !.firstOk = IF sq[k].calls = 0 THEN won ELSE @]]

GenericForgotMessage ==
    "If an account with this email exists, you will receive password reset instructions."

\* forgot_password answering an unknown email with an error of its own
ForgotStartReveal(p, email) ==
    /\ CanStart(p)
    /\ LET found == get_user_by_email(users, email)
           base == With(Idle, [op |-> "forgot", email |-> email])
       IN  proc' = Serve(p,
                IF found = {}
                THEN With(base, [status |-> 404, detail |-> "User not found"])
                ELSE With(base, [pc |-> "commit",
                                 recs |-> LiveResetIds(ptokens, email, now)]))
    /\ ops' = ops + 1
    /\ UNCHANGED <<now, users, rtokens, ptokens, secrets, issued, outbox, budget,
                   rotated, preReset, hin, hout>>

\* POST /forgot-password, UserService.create_password_reset_token up to its
\* UPDATE statement: the rows it marks used are those live when it runs.
ForgotStart(p, email) ==
    /\ CanStart(p)
    /\ LET found == get_user_by_email(users, email)
           base == With(Idle, [op |-> "forgot", email |-> email])
       IN  proc' = Serve(p,
                IF found = {}
                THEN With(base, [status |-> 200, detail |-> GenericForgotMessage])
                ELSE With(base, [pc |-> "commit",
                                 recs |-> LiveResetIds(ptokens, email, now)]))
    /\ ops' = ops + 1
    /\ UNCHANGED <<now, users, rtokens, ptokens, secrets, issued, outbox, budget,
                   rotated, preReset, hin, hout>>

\* create_token, add, commit: the UPDATE and the INSERT become visible
\* together; dbok = FALSE: the commit raises, rollback, None is returned and
\* no mail is scheduled.  The response is the same.
ForgotCommit(p, dbok) ==
    /\ proc[p].op = "forgot" /\ proc[p].pc = "commit"
    /\ LET k == Len(secrets) + 1
       IN  IF dbok
           THEN /\ ptokens' = {IF r.id \in proc[p].recs THEN [r EXCEPT !.used = TRUE] ELSE r
                                 : r \in ptokens}
                               \cup {NewResetRow(proc[p].n, proc[p].email, k, now)}
                /\ secrets' = Append(secrets, NewSecret(proc[p].email, now))
                /\ outbox' = outbox \cup {[email |-> proc[p].email, secret |-> k]}
                /\ proc' = [proc EXCEPT ![p] = With(proc[p], [pc |-> "done", status |-> 200,
                                secret |-> k, detail |-> GenericForgotMessage,
                                mail |-> "scheduled"])]
           ELSE /\ proc' = [proc EXCEPT ![p] = With(proc[p], [pc |-> "done", status |-> 200,
                                detail |-> GenericForgotMessage])]
                /\ UNCHANGED <<ptokens, secrets, outbox>>
    /\ UNCHANGED <<budget, now, users, rtokens, issued, ops, rotated, preReset, hin, hout>>

\* The background task added by forgot_password, run once the response has
\* been sent: email_service.send_password_reset_email returns True, or False
\* when no SMTP server takes the message.
Notify(p, ok) ==
    /\ proc[p].op = "forgot" /\ proc[p].pc = "done" /\ proc[p].mail = "scheduled"
    /\ proc' = [proc EXCEPT ![p] = With(proc[p], [mail |-> IF ok THEN "sent" ELSE "failed"])]
    /\ UNCHANGED <<budget, now, users, rtokens, ptokens, secrets, issued, outbox, ops,
                   rotated, preReset, hin, hout>>

\* verify_and_use_reset_token up to its user lookup: "ok" with the row, or
\* the reason for returning False
FindResetRow(pt, us, secret, t) ==
    LET res == ScalarOneOrNone(SelectLiveResetRows(pt, t))
        row == CHOOSE r \in res.row : TRUE
    IN  IF res.raised THEN [ok |-> FALSE, id |-> 0, uid |-> "none"]
        ELSE IF res.row = {} THEN [ok |-> FALSE, id |-> 0, uid |-> "none"]
        ELSE IF ~verify_token(row, secret, t) THEN [ok |-> FALSE, id |-> 0, uid |-> "none"]
        ELSE IF get_user_by_email(us, row.user_email) = {}
             THEN [ok |-> FALSE, id |-> 0, uid |-> "none"]
        ELSE [ok |-> TRUE, id |-> row.id,
              uid |-> CHOOSE u \in get_user_by_email(us, row.user_email) : TRUE]

\* reset_password with its length check removed
PasswordTooShortNever(pw) == FALSE

\* reset_password's check of the new password: len(new_password) < 8
PasswordTooShort(pw) == Len(pw) < MIN_PASSWORD_LEN

\* POST /reset-password (reset_password): the length check, then
\* verify_and_use_reset_token's SELECT, verify_token and user lookup.
ResetStart(p, secret, pw) ==
    /\ CanStart(p)
    /\ LET f == FindResetRow(ptokens, users, secret, now)
           counted == /\ secret \in 1..Len(secrets)
                      /\ Len(pw) >= MIN_PASSWORD_LEN
                      /\ now < secrets[secret].issuedAt + RESET_EXPIRES_IN_HOURS
                      /\ ~NewerIssued(secret)
           base == With(Idle, [op |-> "reset",
                       hadLive |-> \E r \in ptokens :
                                      /\ r.token_hash = TokenHash(secret)
                                      /\ r.used = FALSE /\ r.expires_at > now
                                      /\ \E u \in Users : users[u].email = r.user_email,
                       second |-> /\ secret \in 1..Len(secrets)
                                  /\ EarlierIssued(secret) /\ ~NewerIssued(secret)
                                  /\ secrets[secret].wins = 0
                                  /\ now < secrets[secret].issuedAt + RESET_EXPIRES_IN_HOURS,
                       superseded |-> secret \in 1..Len(secrets) /\ NewerIssued(secret),
                       counted |-> counted,
                       short |-> Len(pw) < MIN_PASSWORD_LEN])
       IN  IF PasswordTooShort(pw)
           THEN /\ proc' = Serve(p, With(base, [status |-> 400,
                               detail |-> "Password must be at least 8 characters long"]))
                /\ UNCHANGED secrets
           ELSE IF ~f.ok
           THEN /\ proc' = Serve(p, With(base, [status |-> 400,
                               detail |-> "Invalid or expired reset token"]))
                /\ secrets' = Tally(secrets, secret, counted, FALSE)
           ELSE /\ proc' = Serve(p, With(base, [pc |-> "apply", secret |-> secret,
                                                pw |-> pw, recs |-> {f.id}, uid |-> f.uid]))
                /\ UNCHANGED secrets
    /\ ops' = ops + 1
    /\ UNCHANGED <<now, users, rtokens, ptokens, issued, outbox, budget, rotated,
                   preReset, hin, hout>>

\* The rest of verify_and_use_reset_token: the new hash and used = True are
\* set on the session's objects, then revoke_all_user_refresh_tokens runs its
\* UPDATE and commits, which flushes all three changes in one transaction.
\* When that raises (dbok = FALSE, or the reset row is gone and the flush
\* finds no row to update) revoke_all_user_refresh_tokens rolls the session
\* back and returns 0; the caller's own commit then has nothing to write and
\* True is returned.
ResetApply(p, dbok) ==
    /\ proc[p].op = "reset" /\ proc[p].pc = "apply"
    /\ LET u == proc[p].uid
           written == dbok /\ \E r \in ptokens : r.id \in proc[p].recs
       IN  /\ users' = IF written
                       THEN [users EXCEPT ![u].hashed_password =
                                            hash_password(proc[p].pw, <<>>, TRUE),
                                          ![u].plain = proc[p].pw]
                       ELSE users
           /\ ptokens' = IF written
                         THEN {IF r.id \in proc[p].recs THEN [r EXCEPT !.used = TRUE] ELSE r
                                 : r \in ptokens}
                         ELSE ptokens
           /\ rtokens' = IF written THEN revoke_all_user_refresh_tokens(rtokens, u)
                                    ELSE rtokens
           /\ preReset' = [preReset EXCEPT ![u] =
                  [ids |-> @.ids \cup {r.id : r \in {x \in rtokens : x.user_id = u}},
                   toks |-> @.toks \cup {t \in issued : t.typ = "refresh" /\ t.sub = u}]]
    /\ secrets' = Tally(secrets, proc[p].secret, proc[p].counted, TRUE)
    /\ proc' = [proc EXCEPT ![p] = With(proc[p], [pc |-> "done", status |-> 200,
                    detail |-> "Password reset successful. You can now login with your new password."])]
    /\ UNCHANGED <<budget, now, issued, outbox, ops, rotated, hin, hout>>

\* DELETE /cleanup-expired-tokens: both sweeps; ok1 / ok2 = FALSE: that
\* sweep's DELETE raises, it rolls back and returns 0.
Cleanup(p, ok1, ok2) ==
    /\ CanStart(p)
    /\ LET rt2 == IF ok1 THEN cleanup_expired_refresh_tokens(rtokens, now) ELSE rtokens
           pt2 == IF ok2 THEN cleanup_expired_reset_tokens(ptokens, now) ELSE ptokens
       IN  /\ rtokens' = rt2
           /\ ptokens' = pt2
           /\ proc' = Serve(p, With(Idle, [op |-> "cleanup", status |-> 200,
                           detail |-> "Token cleanup completed successfully",
                           n1 |-> Cardinality(rtokens) - Cardinality(rt2),
                           n2 |-> Cardinality(ptokens) - Cardinality(pt2)]))
    /\ ops' = ops + 1
    /\ UNCHANGED <<budget, now, users, secrets, issued, outbox, rotated, preReset, hin, hout>>

\* The clock of the runs in which time goes on after the last request: it
\* advances until every refresh token issued up to MaxTime has expired.
TickOn ==
    /\ now < MaxTime + REFRESH_TOKEN_EXPIRE_DAYS
    /\ now' = now + 1
    /\ UNCHANGED <<users, rtokens, ptokens, secrets, issued, outbox, proc, ops,
                   budget, rotated, preReset, hin, hout>>

\* The scheduled job calling DELETE /cleanup-expired-tokens, both DELETEs
\* executed
Sweep ==
    /\ rtokens' = cleanup_expired_refresh_tokens(rtokens, now)
    /\ ptokens' = cleanup_expired_reset_tokens(ptokens, now)
    /\ UNCHANGED <<now, users, secrets, issued, outbox, proc, ops, budget, rotated,
                   preReset, hin, hout>>

\* get_user_from_token also requiring an unrevoked refresh-token record of the
\* subject (an access token that dies with the session)
get_user_from_token_session(us, token, t) ==
    IF /\ JwtDecode(token, t) = "ok" /\ token.sub \in Users
       /\ \E r \in rtokens : r.user_id = token.sub /\ r.revoked = FALSE
    THEN {token.sub} ELSE {}

\* get_user_from_token: the bearer token decodes and its subject is a user
get_user_from_token(us, token, t) ==
    IF JwtDecode(token, t) = "ok" /\ token.sub \in Users THEN {token.sub} ELSE {}

\* update_user revoking the user's refresh tokens on a password change, as
\* the reset path does
UpdateUserMeRevoking(p, tok, patch) ==
    /\ CanStart(p)
    /\ LET me == get_user_from_token(users, tok, now)
           u == CHOOSE x \in me : TRUE
       IN  IF me = {}
           THEN /\ proc' = Serve(p, With(Idle, [op |-> "update", status |-> 401,
                               detail |-> IF JwtDecode(tok, now) = "ExpiredSignatureError"
                                          THEN "Token has expired"
                                          ELSE "Could not validate credentials"]))
                /\ UNCHANGED users
           ELSE /\ users' = [users EXCEPT ![u] =
                      CASE patch = "deactivate" -> [@ EXCEPT !.is_active = FALSE]
                        [] patch = "activate" -> [@ EXCEPT !.is_active = TRUE]
                        [] OTHER -> [@ EXCEPT !.hashed_password =
                                                hash_password(PwNew, <<>>, TRUE),
                                              !.plain = PwNew]]
                /\ proc' = Serve(p, With(Idle, [op |-> "update", tok |-> tok,
                               uid |-> u, status |-> 200]))
    /\ ops' = ops + 1
    /\ rtokens' = IF get_user_from_token(users, tok, now) # {} /\ patch = "password"
                  THEN revoke_all_user_refresh_tokens(rtokens, tok.sub)
                  ELSE rtokens
    /\ UNCHANGED <<now, ptokens, secrets, issued, outbox, budget, rotated,
                   preReset, hin, hout>>

\* PATCH /users/me (update_user_me -> UserService.update_user) with a patch
\* of is_active or of the password
UpdateUserMe(p, tok, patch) ==
    /\ CanStart(p)
    /\ LET me == get_user_from_token(users, tok, now)
           u == CHOOSE x \in me : TRUE
       IN  IF me = {}
           THEN /\ proc' = Serve(p, With(Idle, [op |-> "update", status |-> 401,
                               detail |-> IF JwtDecode(tok, now) = "ExpiredSignatureError"
                                          THEN "Token has expired"
                                          ELSE "Could not validate credentials"]))
                /\ UNCHANGED users
           ELSE /\ users' = [users EXCEPT ![u] =
                      CASE patch = "deactivate" -> [@ EXCEPT !.is_active = FALSE]
                        [] patch = "activate" -> [@ EXCEPT !.is_active = TRUE]
                        [] OTHER -> [@ EXCEPT !.hashed_password =
                                                hash_password(PwNew, <<>>, TRUE),
                                              !.plain = PwNew]]
                /\ proc' = Serve(p, With(Idle, [op |-> "update", tok |-> tok,
                               uid |-> u, status |-> 200]))
    /\ ops' = ops + 1
    /\ UNCHANGED <<now, rtokens, ptokens, secrets, issued, outbox, budget, rotated,
                   preReset, hin, hout>>

\* ---------------------------------------------------------- hashing harness
Plaintexts == UNION {[1..n -> {"a", "b", "$"}] : n \in 0..MaxPwLen}
Salts == [1..SaltLen -> {0, 36, 171}]

HashIdle == [pc |-> "idle", cred |-> <<>>, same |-> FALSE, other |-> FALSE]

\* hash_password(plain) with the primary scheme available or not
HashCall ==
    /\ hout.pc = "start"
    /\ hout' = [hout EXCEPT !.pc = "hashed",
                            !.cred = hash_password(hin.plain, hin.salt, hin.primaryOk)]
    /\ UNCHANGED <<hin, now, users, rtokens, ptokens, secrets, issued, outbox, proc,
                   ops, budget, rotated, preReset>>

\* verify_password of the same and of another plaintext against the credential
VerifyCall ==
    /\ hout.pc = "hashed"
    /\ hout' = [hout EXCEPT !.pc = "verified",
                            !.same = verify_password(hin.plain, hout.cred),
                            !.other = verify_password(hin.other, hout.cred)]
    /\ UNCHANGED <<hin, now, users, rtokens, ptokens, secrets, issued, outbox, proc,
                   ops, budget, rotated, preReset>>

\* --------------------------------------------------- token validation harness
\* Any JWT a client can send: claims of its choice, signed with the server's
\* key or not, validated at any time.
TokenInputs ==
    [sub : Users, exp : 0..(MaxTime + REFRESH_TOKEN_EXPIRE_DAYS),
     typ : {"access", "refresh", "reset"}, sig : {"ok", "bad"}]

\* validate_refresh_token(token) at time hin.at
ValidateCall ==
    /\ hout.pc = "token"
    /\ hout' = [pc |-> "validated", result |-> validate_refresh_token(hin.token, hin.at)]
    /\ UNCHANGED <<hin, now, users, rtokens, ptokens, secrets, issued, outbox, proc,
                   ops, budget, rotated, preReset>>

\* ------------------------------------------------------ refresh-store harness
\* The rows login and refresh can have stored: the token of a user issued at
\* some time, expiring with it, revoked or not; two rows may hold the same
\* token value.
StoreRowContents ==
    {[token |-> create_refresh_token(u, t), user_id |-> u,
      expires_at |-> t + REFRESH_TOKEN_EXPIRE_DAYS, revoked |-> b] :
        u \in Users, t \in 0..1, b \in BOOLEAN}

StoreOf(f) ==
    {[id |-> i, token |-> f[i].token, user_id |-> f[i].user_id,
      expires_at |-> f[i].expires_at, revoked |-> f[i].revoked] : i \in DOMAIN f}

Stores == UNION {{StoreOf(f) : f \in [1..n -> StoreRowContents]} : n \in 0..MaxRows}

\* revoke_refresh_token(token), and the same call once more
RevokeCall ==
    /\ hout.pc = "store"
    /\ LET r1 == RevokeResult(hin.rt, hin.token, hin.dbok)
           r2 == RevokeResult(r1.rt, hin.token, hin.dbok)
       IN  hout' = [pc |-> "revoked", once |-> r1.rt, twice |-> r2.rt,
                    ret |-> r1.ret, count |-> 0, count2 |-> 0]
    /\ UNCHANGED <<hin, now, users, rtokens, ptokens, secrets, issued, outbox, proc,
                   ops, budget, rotated, preReset>>

\* revoke_all_user_refresh_tokens(uid)
RevokeAllCall ==
    /\ hout.pc = "store"
    /\ LET r1 == RevokeAllResult(hin.rt, hin.uid, hin.dbok)
       IN  hout' = [pc |-> "revokedAll", once |-> r1.rt, twice |-> r1.rt,
                    ret |-> FALSE, count |-> r1.ret, count2 |-> 0]
    /\ UNCHANGED <<hin, now, users, rtokens, ptokens, secrets, issued, outbox, proc,
                   ops, budget, rotated, preReset>>

\* cleanup_expired_refresh_tokens() at time hin.at, and a second run at the
\* same clock value
CleanupRefreshCall ==
    /\ hout.pc = "store"
    /\ LET r1 == CleanupRefreshResult(hin.rt, hin.at, hin.dbok)
           r2 == CleanupRefreshResult(r1.rt, hin.at, hin.dbok2)
       IN  hout' = [pc |-> "swept", once |-> r1.rt, twice |-> r2.rt,
                    ret |-> FALSE, count |-> r1.ret, count2 |-> r2.ret]
    /\ UNCHANGED <<hin, now, users, rtokens, ptokens, secrets, issued, outbox, proc,
                   ops, budget, rotated, preReset>>

\* -------------------------------------------------------- reset-store harness
\* The tables forgot_password and reset_password can have left: row i holds
\* the hash of secret i, issued to some email at some time, used or not.
ResetStoreOf(f) ==
    {[NewResetRow(i, f[i].email, i, f[i].t) EXCEPT !.used = f[i].used] : i \in DOMAIN f}

ResetStores ==
    UNION {{ResetStoreOf(f) : f \in [1..n -> [email : Emails, t : 0..1, used : BOOLEAN]]}
             : n \in 0..MaxRows}

\* cleanup_expired_reset_tokens() at time hin.at
CleanupResetCall ==
    /\ hout.pc = "resetStore"
    /\ LET r1 == CleanupResetResult(hin.pt, hin.at, hin.dbok)
       IN  hout' = [pc |-> "resetSwept", once |-> r1.pt, count |-> r1.ret]
    /\ UNCHANGED <<hin, now, users, rtokens, ptokens, secrets, issued, outbox, proc,
                   ops, budget, rotated, preReset>>

\* ----------------------------------------------------------- specifications
InitMain ==
    /\ now = 0
    /\ users = [u \in Users |-> [email |-> EmailOf(u),
                                 hashed_password |-> hash_password(PwInit, <<>>, TRUE),
                                 plain |-> PwInit,
                                 is_active |-> TRUE]]
    /\ rtokens = {}
    /\ ptokens = {}
    /\ secrets = <<>>
    /\ issued = {}
    /\ outbox = {}
    /\ proc = [p \in Procs |-> Idle]
    /\ ops = 0
    /\ rotated = {}
    /\ preReset = [u \in Users |-> [ids |-> {}, toks |-> {}]]

Init ==
    /\ InitMain
    /\ budget = MaxOps
    /\ hin = [plain |-> <<>>, other |-> <<>>, salt |-> <<>>, primaryOk |-> TRUE]
    /\ hout = HashIdle

\* one request at a time: a longer run
InitSeq ==
    /\ InitMain
    /\ budget = MaxOpsSeq
    /\ hin = [plain |-> <<>>, other |-> <<>>, salt |-> <<>>, primaryOk |-> TRUE]
    /\ hout = HashIdle

\* the notifier included: a shorter run
InitMail ==
    /\ InitMain
    /\ budget = MaxOpsMail
    /\ hin = [plain |-> <<>>, other |-> <<>>, salt |-> <<>>, primaryOk |-> TRUE]
    /\ hout = HashIdle

\* time goes on and the sweep keeps being run: a shorter run
InitLive ==
    /\ InitMain
    /\ budget = MaxOpsLive
    /\ hin = [plain |-> <<>>, other |-> <<>>, salt |-> <<>>, primaryOk |-> TRUE]
    /\ hout = HashIdle

InitHash ==
    /\ InitMain
    /\ budget = 0
    /\ hin \in [plain : Plaintexts, other : Plaintexts, salt : Salts, primaryOk : BOOLEAN]
    /\ hout = [HashIdle EXCEPT !.pc = "start"]

InitToken ==
    /\ InitMain
    /\ budget = 0
    /\ hin \in [token : TokenInputs, at : 0..MaxTime]
    /\ hout = [pc |-> "token", result |-> ""]

InitStore ==
    /\ InitMain
    /\ budget = 0
    /\ hin \in [rt : Stores, token : {create_refresh_token(u, t) : u \in Users, t \in 0..1},
                 uid : Users, at : 0..(MaxTime + 1), dbok : BOOLEAN, dbok2 : BOOLEAN]
    /\ hout = [pc |-> "store", once |-> {}, twice |-> {}, ret |-> FALSE, count |-> 0,
               count2 |-> 0]

InitResetStore ==
    /\ InitMain
    /\ budget = 0
    /\ hin \in [pt : ResetStores, at : 0..MaxTime, dbok : BOOLEAN]
    /\ hout = [pc |-> "resetStore", once |-> {}, count |-> 0]

\* Every storage call succeeds
NextOK ==
    \/ Tick
    \/ \E p \in Procs, e \in Emails \cup {UnknownEmail}, pw \in {PwInit, PwNew} :
          Login(p, e, pw, TRUE)
    \/ \E p \in Procs, t \in Presentable : RefreshStart(p, t)
    \/ \E p \in Procs : RefreshUser(p)
    \/ \E p \in Procs : RefreshRevoke(p, TRUE)
    \/ \E p \in Procs : RefreshCreate(p, TRUE)
    \/ \E p \in Procs, t \in Presentable : Logout(p, t, TRUE)
    \/ \E p \in Procs, e \in Emails \cup {UnknownEmail} : ForgotStart(p, e)
    \/ \E p \in Procs : ForgotCommit(p, TRUE)
    \/ \E p \in Procs, k \in 0..Len(secrets), pw \in {PwNew, PwShort} : ResetStart(p, k, pw)
    \/ \E p \in Procs : ResetApply(p, TRUE)
    \/ \E p \in Procs : Cleanup(p, TRUE, TRUE)
    \/ \E p \in Procs, t \in issued, patch \in {"deactivate", "activate", "password"} :
          UpdateUserMe(p, t, patch)

\* A storage call raises
NextFault ==
    \/ \E p \in Procs, e \in Emails, pw \in {PwInit, PwNew} : Login(p, e, pw, FALSE)
    \/ \E p \in Procs : RefreshRevoke(p, FALSE)
    \/ \E p \in Procs : RefreshCreate(p, FALSE)
    \/ \E p \in Procs, t \in Presentable : Logout(p, t, FALSE)
    \/ \E p \in Procs : ForgotCommit(p, FALSE)
    \/ \E p \in Procs : ResetApply(p, FALSE)
    \/ \E p \in Procs : Cleanup(p, FALSE, TRUE)
    \/ \E p \in Procs : Cleanup(p, TRUE, FALSE)

Next == NextOK \/ NextFault

\* At most one request in flight: requests served one after the other
Sequential == Cardinality({p \in Procs : InFlight(p)}) <= 1

\* a request starts only when none is in flight
NextSeq == NextOK /\ Sequential' /\ (ops' # ops => \A p \in Procs : ~InFlight(p))

NextMail ==
    \/ Next
    \/ \E p \in Procs : Notify(p, TRUE)
    \/ \E p \in Procs : Notify(p, FALSE)

\* Requests are served up to MaxTime; the clock and the sweep go on after.
NextLive ==
    \/ now <= MaxTime /\ Next
    \/ TickOn
    \/ Sweep

NextHash == HashCall \/ VerifyCall

NextToken == ValidateCall

NextStore == RevokeCall \/ RevokeAllCall \/ CleanupRefreshCall

NextResetStore == CleanupResetCall

\* concurrent requests, storage failures
Spec == Init /\ [][Next]_vars
\* concurrent requests, no storage failure
SpecOK == Init /\ [][NextOK]_vars
\* one request at a time, no storage failure
SpecSeq == InitSeq /\ [][NextSeq]_vars
\* concurrent requests, storage failures, and the notifier
SpecMail == InitMail /\ [][NextMail]_vars
\* concurrent requests, storage failures; the clock keeps advancing and the
\* sweep keeps being run
SpecLive == InitLive /\ [][NextLive]_vars /\ WF_vars(TickOn) /\ WF_vars(Sweep)
\* hash_password then verify_password over all small inputs
SpecHash == InitHash /\ [][NextHash]_vars
\* validate_refresh_token over all small tokens
SpecToken == InitToken /\ [][NextToken]_vars
\* revoke_refresh_token and revoke_all_user_refresh_tokens over all small stores
SpecStore == InitStore /\ [][NextStore]_vars
\* cleanup_expired_reset_tokens over all small reset-token tables
SpecResetStore == InitResetStore /\ [][NextResetStore]_vars

\* ------------------------------------------------------------------ properties
ShortPasswordDetail == "Password must be at least 8 characters long"
InvalidResetDetail == "Invalid or expired reset token"

Answered(p, op) == proc[p].op = op /\ proc[p].pc = "done"

\* C1: of two refresh requests that carry the same valid, live refresh token
\* and run concurrently (the second starts while the first is in flight, the
\* user staying usable), exactly one is answered 200.
ConcurrentRefreshOneWins ==
    \A p, q \in Procs :
        (/\ p # q /\ Answered(p, "refresh") /\ Answered(q, "refresh")
         /\ proc[p].racedWith # 0 /\ proc[p].racedWith = proc[q].n
         /\ proc[p].sawValid /\ proc[p].sawLive
         /\ proc[p].detail # "Invalid user or inactive user"
         /\ proc[q].detail # "Invalid user or inactive user")
        => Cardinality({r \in {p, q} : proc[r].status = 200}) = 1

\* C2: a call of verify_and_use_reset_token with a secret whose live record
\* (unused, unexpired, hash equal, user existing) is in the store succeeds,
\* whatever other records the store holds, and the record it consumes is the
\* one with the matching hash.
ResetSucceedsOnLiveMatch ==
    \A p \in Procs :
        /\ (Answered(p, "reset") /\ proc[p].hadLive /\ proc[p].detail # ShortPasswordDetail)
              => proc[p].status = 200
        /\ (proc[p].op = "reset" /\ proc[p].pc = "apply")
              => \A r \in ptokens : r.id \in proc[p].recs
                                      => r.token_hash = TokenHash(proc[p].secret)

\* C3: of the reset_password calls presenting one issued secret with a long
\* enough password, before expiry and with no newer token issued for the
\* email, the first succeeds and no other does.
ResetSucceedsExactlyOnce ==
    \A k \in 1..Len(secrets) :
        secrets[k].calls >= 1 => (secrets[k].firstOk /\ secrets[k].wins = 1)

\* C4: a refresh request is answered 200 only if the token was sound (good
\* signature, type refresh, not past exp) and had an unrevoked, unexpired
\* record when it was looked up, and the user existed and was active when it
\* was read; a refresh request not answered 200 returns no token.
RefreshOnlyWhenChecked ==
    \A p \in Procs :
        proc[p].op = "refresh" =>
            /\ proc[p].status = 200
                  => proc[p].sawValid /\ proc[p].sawLive /\ proc[p].sawUser
            /\ proc[p].status # 200
                  => proc[p].access = NoToken /\ proc[p].refresh = NoToken

\* a refresh request that was answered 200 with its two tokens
RefreshSucceeded ==
    \E p \in Procs : /\ Answered(p, "refresh") /\ proc[p].status = 200
                     /\ proc[p].access # NoToken /\ proc[p].refresh # NoToken

\* C5: a refresh request presenting a token with which an earlier refresh
\* request succeeded is not answered 200.
RotatedTokenRejected ==
    \A p \in Procs : (Answered(p, "refresh") /\ proc[p].replay) => proc[p].status # 200

OneLiveResetTokenPerEmail ==
    \A e \in Emails :
        Cardinality({r \in ptokens : r.user_email = e /\ r.used = FALSE
                                       /\ r.expires_at > now}) <= 1

\* C8: after a second issuance for an email, a reset_password call with the
\* first secret fails, and a call with the second secret, not yet consumed
\* or expired, with a long enough password, succeeds.
SecondIssueSupersedesFirst ==
    \A p \in Procs :
        Answered(p, "reset") =>
            /\ proc[p].superseded
                  => /\ proc[p].status = 400
                     /\ proc[p].detail \in {InvalidResetDetail, ShortPasswordDetail}
            /\ (proc[p].second /\ proc[p].detail # ShortPasswordDetail)
                  => proc[p].status = 200

FallbackRoundTrip ==
    (hout.pc = "verified" /\ ~hin.primaryOk)
        => /\ hout.same
           /\ hin.other # hin.plain => ~hout.other

\* C11: a request is authenticated only by a token of type access: no
\* PATCH /users/me presenting a refresh token is answered 200.
BearerIsAccessToken ==
    \A p \in Procs :
        (Answered(p, "update") /\ proc[p].status = 200) => proc[p].tok.typ = "access"

\* C12: validate_refresh_token answers a correctly signed token past its
\* expiry with "Refresh token has expired", a correctly signed, unexpired
\* token of another type with "Invalid token type", a token that does not
\* decode with "Invalid refresh token", and accepts only a correctly signed,
\* unexpired token of type refresh.
ValidateDistinguishes ==
    hout.pc = "validated" =>
        LET tok == hin.token
            expired == tok.exp < hin.at
        IN  /\ (tok.sig = "ok" /\ expired) => hout.result = "Refresh token has expired"
            /\ (tok.sig = "ok" /\ ~expired /\ tok.typ # "refresh")
                  => hout.result = "Invalid token type"
            /\ tok.sig # "ok" => hout.result = "Invalid refresh token"
            /\ hout.result = "ok" <=> TokenSound(tok, hin.at)

\* C13: every step that answers a forgot_password request, and the notifier
\* step after it, leaves the same response (200, the generic message) whether
\* a user has the email or not and whether the notifier fails or not; such a
\* step changes no user and no refresh token; it changes the reset-token
\* store and the scheduled notifications only when a user has the email, and
\* then by adding one unused record for the email and one notification.
ForgotUniformResponse ==
    [][\A p \in Procs :
          (proc'[p].op = "forgot" /\ proc'[p].pc = "done" /\ proc'[p] # proc[p])
          => /\ proc'[p].status = 200 /\ proc'[p].detail = GenericForgotMessage
             /\ users' = users /\ rtokens' = rtokens
             /\ get_user_by_email(users, proc'[p].email) = {}
                   => ptokens' = ptokens /\ outbox' = outbox
             /\ (ptokens' # ptokens \/ outbox' # outbox)
                   => /\ Cardinality(outbox' \ outbox) = 1
                      /\ \A m \in outbox' \ outbox : m.email = proc'[p].email
                      /\ Cardinality({r.id : r \in ptokens'} \ {r.id : r \in ptokens}) = 1
                      /\ \A r \in ptokens' :
                            r.id \notin {x.id : x \in ptokens}
                               => r.user_email = proc'[p].email /\ r.used = FALSE]_vars

\* a forgot_password for an unknown email and one whose notification failed,
\* both answered
ForgotBothAnswered ==
    \E p, q \in Procs :
        /\ Answered(p, "forgot") /\ get_user_by_email(users, proc[p].email) = {}
        /\ Answered(q, "forgot") /\ proc[q].mail = "failed"

\* The step that serves a logout request in slot p
LogoutStep(p) == ops' = ops + 1 /\ proc'[p].op = "logout" /\ proc'[p].n = ops'

LogoutSameAnswer(p) ==
    proc'[p].status = 200 /\ proc'[p].detail = "Successfully logged out"

\* the records of other token values are what they were, and no record is
\* added or removed
LogoutFrame(p) ==
    /\ {r.id : r \in rtokens'} = {r.id : r \in rtokens}
    /\ \A r \in rtokens : r.token # proc'[p].tok => r \in rtokens'

\* C14, as stated: logout answers every token, and a storage failure, with
\* the same success response; afterwards every record with that token value
\* is revoked and no other record is changed.
LogoutAlwaysRevokes ==
    [][\A p \in Procs :
          LogoutStep(p)
          => /\ LogoutSameAnswer(p)
             /\ \A r \in rtokens' : r.token = proc'[p].tok => r.revoked
             /\ LogoutFrame(p)]_vars

\* C14, amended: the same response always; afterwards every record with
\* that token value is revoked, or (the revoke failed in the store) the
\* store is as it was; no other record is changed.
LogoutRevokesBestEffort ==
    [][\A p \in Procs :
          LogoutStep(p)
          => /\ LogoutSameAnswer(p)
             /\ \/ \A r \in rtokens' : r.token = proc'[p].tok => r.revoked
                \/ rtokens' = rtokens
             /\ LogoutFrame(p)]_vars

\* a logout answered whose token has a record, revoked, next to a live record
\* of another token
LogoutRevokedOne ==
    \E p \in Procs :
        /\ Answered(p, "logout")
        /\ \E r \in rtokens : r.token = proc[p].tok /\ r.revoked
        /\ \E r \in rtokens : r.token # proc[p].tok /\ r.revoked = FALSE

\* The step that serves a login request in slot p
LoginStep(p) == ops' = ops + 1 /\ proc'[p].op = "login" /\ proc'[p].n = ops'

\* C15: a login with an email no user has, or with a password that is not
\* the user's, is answered 401 "Incorrect email or password"; one with the
\* user's password for a disabled user is answered 400 "Inactive user"; a
\* login not answered 200 returns no token, and its step issues no token and
\* adds no refresh-token record.
LoginFailures ==
    [][\A p \in Procs :
          LoginStep(p)
          => /\ (~proc'[p].sawUser \/ ~proc'[p].sawCred)
                   => /\ proc'[p].status = 401
                      /\ proc'[p].detail = "Incorrect email or password"
             /\ (proc'[p].sawCred /\ ~proc'[p].sawActive)
                   => proc'[p].status = 400 /\ proc'[p].detail = "Inactive user"
             /\ proc'[p].status # 200
                   => /\ proc'[p].access = NoToken /\ proc'[p].refresh = NoToken
                      /\ rtokens' = rtokens /\ issued' = issued]_vars

\* a login with the right password of a disabled user, refused with no token
LoginRefusedInactive ==
    \E p \in Procs :
        /\ Answered(p, "login") /\ proc[p].status = 400
        /\ proc[p].sawCred /\ ~proc[p].sawActive /\ proc[p].refresh = NoToken

\* C16: right after a login answered 200, get_refresh_token of the returned
\* refresh token returns a record owned by the logged-in user, not revoked.
LoginPersistsRefreshToken ==
    [][\A p \in Procs :
          (LoginStep(p) /\ proc'[p].status = 200)
          => \E r \in get_refresh_token(rtokens', proc'[p].refresh, now') :
                r.user_id = proc'[p].uid /\ r.revoked = FALSE]_vars

\* C17: (a) right after a record is created for a token, get_refresh_token
\* of the token returns a record; (b) once the records of a token are revoked
\* and get_refresh_token returns none, it returns none after every later
\* step; (c) get_refresh_token returns none for the token of a record whose
\* expires_at has been reached.
RefreshLivenessMonotone ==
    [][/\ \A r \in rtokens' :
             r.id \notin {x.id : x \in rtokens}
                => get_refresh_token(rtokens', r.token, now') # {}
       /\ \A r \in rtokens :
             (r.revoked /\ get_refresh_token(rtokens, r.token, now) = {})
                => get_refresh_token(rtokens', r.token, now') = {}
       /\ \A r \in rtokens' :
             r.expires_at <= now' => get_refresh_token(rtokens', r.token, now') = {}]_vars

\* part (b) of C17 alone: a revoked token is never found again
RevokedStaysRevoked ==
    [][\A r \in rtokens :
          (r.revoked /\ get_refresh_token(rtokens, r.token, now) = {})
             => get_refresh_token(rtokens', r.token, now') = {}]_vars

\* C18: of two reset_password requests that present the same secret and run
\* concurrently (both in the worker slots, one started while the other was in
\* flight), at most one is answered 200.
ConcurrentResetOneWins ==
    \A p, q \in Procs :
        (/\ p # q /\ Answered(p, "reset") /\ Answered(q, "reset")
         /\ proc[p].status = 200 /\ proc[q].status = 200)
        => proc[p].secret # proc[q].secret

\* C19: revoke_refresh_token returns True exactly when a record with the
\* token value was unrevoked before and is revoked after, and False when no
\* record matched or the record was already revoked; a second application
\* leaves the store as the first left it.
RevokeTellsChange ==
    hout.pc = "revoked" =>
        /\ hout.ret <=> \E r \in hin.rt : /\ r.token = hin.token /\ r.revoked = FALSE
                                          /\ [r EXCEPT !.revoked = TRUE] \in hout.once
        /\ hout.twice = hout.once

\* A refresh-token record is live at time t: not revoked and not expired
LiveAt(r, t) == r.revoked = FALSE /\ r.expires_at > t

\* The records of the store before the call whose revoked flag the call changed
Flipped == {r \in hin.rt : [r EXCEPT !.revoked = ~r.revoked] \in hout.once}

\* C20 as stated: revoke_all_user_refresh_tokens(subject) revokes every live
\* record of subject, returns the number of live records it flipped, and
\* leaves the records of every other user unchanged.
RevokeAllCountsLive ==
    hout.pc = "revokedAll" =>
        /\ \A r \in hin.rt : (r.user_id = hin.uid /\ LiveAt(r, hin.at))
                                => [r EXCEPT !.revoked = TRUE] \in hout.once
        /\ hout.count = Cardinality({r \in Flipped : LiveAt(r, hin.at)})
        /\ \A r \in hin.rt : r.user_id # hin.uid => r \in hout.once

\* C20: when its UPDATE succeeds, revoke_all_user_refresh_tokens(subject)
\* revokes every unrevoked record of subject, expired or not, and returns the
\* number of records it flipped, which is at least the number of live ones;
\* when the UPDATE fails it changes nothing and returns 0; in both cases no
\* record is added or removed, no revoked record becomes unrevoked, and the
\* records of every other user are unchanged.
RevokeAllFrame ==
    hout.pc = "revokedAll" =>
        /\ hin.dbok => \A r \in hin.rt : (r.user_id = hin.uid /\ r.revoked = FALSE) => r \in Flipped
        /\ ~hin.dbok => hout.once = hin.rt
        /\ hout.count = Cardinality(Flipped)
        /\ hout.count >= Cardinality({r \in Flipped : LiveAt(r, hin.at)})
        /\ {r.id : r \in hout.once} = {r.id : r \in hin.rt}
        /\ Cardinality(hout.once) = Cardinality(hin.rt)
        /\ \A r \in hin.rt : r.revoked => r \in hout.once
        /\ \A r \in hin.rt : r.user_id # hin.uid => r \in hout.once

\* A call that revoked an expired record of the subject, so that the count
\* exceeds the number of live records flipped, next to another user's
\* unrevoked record
RevokeAllFlippedExpired ==
    /\ hout.pc = "revokedAll"
    /\ hin.dbok
    /\ hout.count = 1
    /\ \E r \in Flipped : r.user_id = hin.uid /\ ~LiveAt(r, hin.at)
    /\ \E r \in hout.once : r.user_id # hin.uid /\ r.revoked = FALSE

\* C21: when its DELETE is executed, cleanup_expired_refresh_tokens deletes
\* every refresh-token record whose expires_at is in the past, revoked or not,
\* deletes no record that get_refresh_token would still return, and returns
\* the number deleted; a second run at the same clock value then deletes
\* nothing and returns 0.  When the DELETE raises, nothing is deleted and 0 is
\* returned.
SweepRefreshExpired ==
    hout.pc = "swept" =>
        /\ hout.once \subseteq hin.rt
        /\ hout.count = Cardinality(hin.rt \ hout.once)
        /\ \A r \in hin.rt :
              get_refresh_token({x \in hin.rt : x.id = r.id}, r.token, hin.at) # {}
                 => r \in hout.once
        /\ hin.dbok => /\ \A r \in hin.rt : r.expires_at < hin.at => r \notin hout.once
                       /\ hout.twice = hout.once
                       /\ hout.count2 = 0
        /\ ~hin.dbok => hout.once = hin.rt /\ hout.count = 0

\* A sweep that deleted an expired revoked record and an expired unrevoked
\* one, and whose second run found nothing
SweptBothKinds ==
    /\ hout.pc = "swept"
    /\ hin.dbok /\ hin.dbok2
    /\ hout.count = 2
    /\ \E r1, r2 \in hin.rt \ hout.once : r1.revoked /\ ~r2.revoked /\ r1.expires_at < hin.at
    /\ hout.count2 = 0

\* C22: cleanup_expired_reset_tokens removes only reset-token records whose
\* expires_at is before now: every record that is not past expiry, used ones
\* included, is still present after the sweep, and the count returned is the
\* number of expired records.
SweepResetOnlyExpired ==
    hout.pc = "resetSwept" =>
        /\ \A r \in hin.pt : r.expires_at > hin.at => r \in hout.once
        /\ hin.dbok => hout.count = Cardinality({r \in hin.pt : r.expires_at <= hin.at})

ResetStep(p) == ops' = ops + 1 /\ proc'[p].op = "reset" /\ proc'[p].n = ops'

\* C23: a reset_password request with a new password shorter than 8
\* characters is answered 400 with the password-too-short detail at once and
\* changes nothing: the reset-token records (so the secret's record stays
\* used = false and a later request with the same secret finds what it would
\* have found), the users' credentials and the refresh tokens are as before;
\* a request refused because of its token is answered 400 'Invalid or expired
\* reset token' whatever the reason, and changes nothing either.
ShortPasswordRefusedFirst ==
    [][\A p \in Procs : ResetStep(p) =>
          /\ proc'[p].short =>
                /\ proc'[p].pc = "done" /\ proc'[p].status = 400
                /\ proc'[p].detail = ShortPasswordDetail
                /\ UNCHANGED <<users, rtokens, ptokens, secrets, now>>
          /\ (~proc'[p].short /\ proc'[p].pc = "done") =>
                /\ proc'[p].status = 400
                /\ proc'[p].detail = InvalidResetDetail
                /\ UNCHANGED <<users, rtokens, ptokens>>]_vars

\* A request with a short password and the secret of a live record, refused,
\* while the user holds a refresh token
ShortResetRefusedOnLiveSecret ==
    \E p \in Procs :
        /\ Answered(p, "reset") /\ proc[p].short /\ proc[p].hadLive
        /\ proc[p].detail = ShortPasswordDetail
        /\ \E r \in ptokens : r.used = FALSE /\ r.expires_at > now

\* C24: access tokens are never revoked.  After every step (logout, the
\* steps of refresh, password reset, the sweeps and all others) every access
\* token the server has issued and whose exp has not passed is accepted by
\* get_user_from_token, and no step changes what get_user_from_token answers
\* for any issued token at the current clock value.
AccessTokenNeverRevoked ==
    [][/\ \A t \in issued' : (t.typ = "access" /\ ~(t.exp < now'))
                                => get_user_from_token(users', t, now') = {t.sub}
       /\ \A t \in issued : get_user_from_token(users', t, now)
                              = get_user_from_token(users, t, now)]_vars

\* An access token accepted by PATCH /users/me after every refresh-token
\* record of its user had been revoked (by logout, rotation or reset), with
\* no other request in flight or answered since
AccessAcceptedAfterRevocation ==
    \E p \in Procs :
        /\ Answered(p, "update") /\ proc[p].status = 200
        /\ proc[p].tok.typ = "access"
        /\ \A q \in Procs \ {p} : proc[q].op = "idle"
        /\ \E r \in rtokens : r.user_id = proc[p].uid
        /\ \A r \in rtokens : r.user_id = proc[p].uid => r.revoked

CleanupStep(p) == ops' = ops + 1 /\ proc'[p].op = "cleanup" /\ proc'[p].n = ops'

\* What the requests yet to start would read, before and after a step: the
\* lookups of refresh, of reset_password and of forgot_password
SameLookups ==
    /\ \A tok \in Presentable :
          get_refresh_token(rtokens', tok, now) = get_refresh_token(rtokens, tok, now)
    /\ \A k \in 0..Len(secrets) :
          FindResetRow(ptokens', users, k, now) = FindResetRow(ptokens, users, k, now)
    /\ \A e \in Emails : LiveResetIds(ptokens', e, now) = LiveResetIds(ptokens, e, now)

\* The last step of a reset_password request that got past its checks
ResetApplyStep(p) ==
    proc[p].op = "reset" /\ proc[p].pc = "apply" /\ proc'[p].pc = "done"

\* C25: with no storage failure, a sweep run at any point changes the outcome
\* of no other request: it changes nothing that a request yet to start looks
\* up, and a reset_password request that had passed its checks when the sweep
\* ran still completes as it would have, storing the new password and
\* marking its record used.
SweepChangesNoOutcome ==
    [][/\ \A p \in Procs : CleanupStep(p) => SameLookups
       /\ \A p \in Procs : ResetApplyStep(p) =>
             /\ proc'[p].status = 200
             /\ users'[proc[p].uid].plain = proc[p].pw
             /\ \E r \in ptokens' : r.id \in proc[p].recs /\ r.used]_vars

\* The record with this id is in the store / is in the store and live
RecordStored(i) == \E r \in rtokens : r.id = i
RecordLive(i) == \E r \in rtokens : r.id = i /\ LiveAt(r, now)

\* C26: a refresh-token record that is not live (rotated, revoked or expired)
\* is never live again; with the clock advancing every record eventually
\* stops being live, and with the sweep being run every record is eventually
\* deleted.
RefreshRecordLineage ==
    /\ [][\A i \in 1..MaxOpsLive : (RecordStored(i) /\ ~RecordLive(i)) => ~RecordLive(i)']_vars
    /\ \A i \in 1..MaxOpsLive : RecordLive(i) ~> ~RecordLive(i)
    /\ \A i \in 1..MaxOpsLive : RecordStored(i) ~> ~RecordStored(i)

\* After a successful rotation and the expiry of every token, the sweep has
\* emptied the store
LineageEnded ==
    /\ \E p \in Procs : Answered(p, "refresh") /\ proc[p].status = 200
    /\ now > MaxTime
    /\ rtokens = {}

\* C27: in every reachable state no two records of the refresh-token store
\* hold the same token value.
RefreshTokenValuesUnique ==
    \A r1, r2 \in rtokens : r1.token = r2.token => r1.id = r2.id

RefreshRefusedStep(p) ==
    /\ proc'[p].op = "refresh" /\ proc'[p].pc = "done" /\ proc'[p].status = 401
    /\ \/ ops' = ops + 1 /\ proc'[p].n = ops'
       \/ proc[p].op = "refresh" /\ proc[p].pc = "user"

\* C29: a refresh request that is refused (bad signature, wrong type,
\* expired, no live record, missing or inactive user) leaves the
\* refresh-token store unchanged: no record is revoked, created or deleted,
\* so the token of a request refused for its inactive user has the live
\* record it had, and is refused or accepted afterwards on the user's state
\* alone.
RefusedRefreshChangesNothing ==
    [][\A p \in Procs : RefreshRefusedStep(p) =>
          /\ UNCHANGED <<rtokens, ptokens, users, issued>>
          /\ proc'[p].access = NoToken /\ proc'[p].refresh = NoToken
          /\ \A tok \in Presentable :
                get_refresh_token(rtokens', tok, now') = get_refresh_token(rtokens, tok, now)]_vars

\* A refresh refused for its inactive user while the record of its token is
\* still live
RefusedInactiveStillLive ==
    \E p \in Procs :
        /\ Answered(p, "refresh") /\ proc[p].status = 401
        /\ proc[p].detail = "Invalid user or inactive user"
        /\ ~users[proc[p].uid].is_active
        /\ get_refresh_token(rtokens, proc[p].tok, now) # {}

\* A PATCH /users/me request that was carried out
UpdateStep(p) ==
    ops' = ops + 1 /\ proc'[p].op = "update" /\ proc'[p].n = ops' /\ proc'[p].status = 200

\* C30: a change of password through PATCH /users/me leaves the
\* refresh-token store unchanged: every refresh token with a live record
\* before the change has it after, its user is as usable as before, and so
\* refresh accepts it as before.
ProfilePasswordKeepsTokens ==
    [][\A p \in Procs :
          (UpdateStep(p) /\ users'[proc'[p].uid].is_active = users[proc'[p].uid].is_active) =>
             /\ UNCHANGED <<rtokens, ptokens>>
             /\ \A tok \in Presentable :
                   /\ get_refresh_token(rtokens', tok, now') = get_refresh_token(rtokens, tok, now)
                   /\ validate_refresh_token(tok, now') = validate_refresh_token(tok, now)
                   /\ UserUsable(users', tok.sub) = UserUsable(users, tok.sub)]_vars

\* The password changed through the profile path (no reset token was ever
\* issued) while the user's refresh token keeps its live record
PasswordChangedTokenLive ==
    \E p \in Procs :
        /\ Answered(p, "update") /\ proc[p].status = 200
        /\ secrets = <<>>
        /\ users[proc[p].uid].hashed_password = hash_password(PwNew, <<>>, TRUE)
        /\ users[proc[p].uid].is_active
        /\ \E tok \in issued : /\ tok.typ = "refresh" /\ tok.sub = proc[p].uid
                               /\ get_refresh_token(rtokens, tok, now) # {}

====
